---- MODULE Spec2Model ----
(***************************************************************************)
(* Kitwe command resolution and execution core.                            *)
(*                                                                         *)
(*   resolver.ts  resolveRunSpec: RunSpec + kitwe.yaml -> ResolvedCommand   *)
(*                | ResolvedError (or an exception of the config loader)   *)
(*   config.ts    loadProjectConfig / loadRunConfig / getRunPreCommands    *)
(*   executor.ts  runValidate: directories, pre-commands, main command     *)
(*                under a timeout, status derivation                       *)
(*                                                                         *)
(* JavaScript values are modelled as follows.  `undefined` is the string   *)
(* Undefined; an optional array that is absent is the empty sequence; a    *)
(* nullable exit code is a sequence of length 0 (null) or 1 (the code).    *)
(* Strings built by concatenation are sequences of their pieces, or are    *)
(* looked up in a table over the finite universe of paths of the model.    *)
(***************************************************************************)
EXTENDS Integers, Sequences, FiniteSets, TLC

VARIABLES
    spec,       \* the RunSpec of the call
    processEnv, \* process.env: the environment the call inherits
    fs,         \* the file system: project root, kitwe.yaml, lock files
    pc,         \* position of the call: start, pre, main, done, thrown, resolved
    resolved,   \* what resolveRunSpec produced
    preIdx,     \* the index i of the loop of runPreCommands
    child,      \* the child process of the runCommand call in progress
    settled,    \* the CommandResult the promise of runCommand resolved with
    spawned,    \* the commands spawned so far, in order
    ended,      \* the exit code each settled command reported, in order
    alive,      \* the spawned commands whose process has not exited
    progress,   \* the phase tags passed to onProgress, in order
    logs,       \* the log files written
    result,     \* the RunResult returned
    scanned,    \* the directories the artifact scan called readdirSync on
    thrown      \* the exception that left the call

vars == <<spec, processEnv, fs, pc, resolved, preIdx, child, settled, spawned, ended,
          alive, progress, logs, result, scanned, thrown>>

------------------------------------------------------------------------------
(* Bounds of the model *)

\* longest list of caller-supplied extra arguments (spec.args)
MaxArgs == 1

\* longest list of setup.pre_commands
MaxPre == 2

------------------------------------------------------------------------------
(* Values *)

Undefined == "undefined"

\* JavaScript truthiness of an optional string: undefined and "" are falsy
Truthy(s) == s # Undefined /\ s # ""

RunnerType == {"npm", "pnpm", "yarn", "npx"}

projectRoot == "/proj"

\* path.resolve(projectRoot, p) over the paths of the model
resolve(root, p) ==
    CASE p = "/opt/tools"        -> "/opt/tools"
      [] p = "/var/artifacts"    -> "/var/artifacts"
      [] p = "backend"           -> "/proj/backend"
      [] p = "artifacts/kitwe"   -> "/proj/artifacts/kitwe"
      [] p = "pw.config.ts"      -> "/proj/pw.config.ts"
      [] p = "missing.config.ts" -> "/proj/missing.config.ts"
      [] p = "yaml.config.ts"    -> "/proj/yaml.config.ts"
      [] p = "gone.config.ts"    -> "/proj/gone.config.ts"
      [] p = "kitwe.yaml"        -> "/proj/kitwe.yaml"
      [] p = "pnpm-lock.yaml"    -> "/proj/pnpm-lock.yaml"
      [] p = "yarn.lock"         -> "/proj/yarn.lock"
      [] OTHER                   -> root

\* cwd.startsWith('/')
startsWithSlash(p) == p \in {"/opt/tools", "/var/artifacts", "/proj"}

\* `--config=${configPath}`
ConfigFlag(p) ==
    CASE p = "pw.config.ts"      -> "--config=pw.config.ts"
      [] p = "missing.config.ts" -> "--config=missing.config.ts"
      [] p = "yaml.config.ts"    -> "--config=yaml.config.ts"
      [] p = "gone.config.ts"    -> "--config=gone.config.ts"
      [] OTHER                   -> "--config="

\* an environment, or an overlay of one: a function from the names it
\* defines to their values; an overlay that is absent defines nothing
EmptyEnv == [n \in {} |-> ""]

\* { ...base, ...overlay } and Object.assign(base, overlay)
AssignEnv(base, overlay) ==
    [n \in DOMAIN base \cup DOMAIN overlay |->
        IF n \in DOMAIN overlay THEN overlay[n] ELSE base[n]]

\* fs.existsSync(path): nothing exists under a project root that does not
existsSync(f, path) ==
    IF path = projectRoot THEN f.rootExists
    ELSE IF path = "/proj/kitwe.yaml" THEN f.rootExists /\ f.yaml # "absent"
    ELSE f.rootExists /\ path \in f.files

------------------------------------------------------------------------------
(* config.ts *)

\* the states of <projectRoot>/kitwe.yaml that the loader tells apart
YamlState == {"absent", "unreadable", "malformed", "empty", "scalar",
              "invalid", "valid"}

getConfigPath(root) == resolve(root, "kitwe.yaml")

\* snake_case (zod output) -> camelCase RunConfig / TestsConfig
convertToTypescript(raw) ==
    [run   |-> [runner      |-> raw.run.runner,
                script      |-> raw.run.script,
                configPath  |-> raw.run.config_path,
                args        |-> raw.run.args,
                env         |-> raw.run.env,
                skipSetup   |-> raw.run.skip_setup,
                preCommands |-> raw.run.pre_commands],
     tests |-> [testDir |-> raw.tests.test_dir,
                pattern |-> raw.tests.pattern]]

NoConfig ==
    [run   |-> [runner |-> Undefined, script |-> Undefined,
                configPath |-> Undefined, args |-> <<>>, env |-> EmptyEnv,
                skipSetup |-> FALSE, preCommands |-> <<>>],
     tests |-> [testDir |-> Undefined, pattern |-> Undefined]]

\* loadProjectConfig: null when the file is absent, throws when it exists
\* and cannot be read, parsed or validated
loadProjectConfig(f) ==
    IF ~existsSync(f, getConfigPath(projectRoot))
    THEN [kind |-> "null", error |-> Undefined, config |-> NoConfig]
    ELSE CASE f.yaml = "unreadable" ->
                [kind |-> "throw", error |-> "ConfigLoadError", config |-> NoConfig]
           [] f.yaml = "malformed" ->
                [kind |-> "throw", error |-> "ConfigLoadError", config |-> NoConfig]
           [] f.yaml = "empty" ->
                [kind |-> "throw", error |-> "ConfigLoadError", config |-> NoConfig]
           [] f.yaml = "scalar" ->
                [kind |-> "throw", error |-> "ConfigLoadError", config |-> NoConfig]
           [] f.yaml = "invalid" ->
                [kind |-> "throw", error |-> "ConfigValidationError", config |-> NoConfig]
           [] OTHER ->
                [kind |-> "config", error |-> Undefined,
                 config |-> convertToTypescript(f.raw)]

\* the test directory of the tests section is made an argument of the run
loadRunConfig_TestDirArg(f) ==
    LET c == loadProjectConfig(f)
    IN  [kind |-> c.kind, error |-> c.error,
         run |-> IF Truthy(c.config.tests.testDir)
                 THEN [c.config.run EXCEPT !.args = @ \o <<c.config.tests.testDir>>]
                 ELSE c.config.run]

\* loadRunConfig: config?.run ?? null
loadRunConfig(f) ==
    LET c == loadProjectConfig(f)
    IN  [kind |-> c.kind, error |-> c.error, run |-> c.config.run]

\* the run-phase commands come before the shared setup commands
getRunPreCommands_RunFirst(f) ==
    IF ~existsSync(f, getConfigPath(projectRoot)) THEN <<>>
    ELSE IF f.yaml # "valid" THEN <<>>
    ELSE f.raw.run.pre_commands
         \o (IF ~f.raw.run.skip_setup THEN f.raw.setup.pre_commands ELSE <<>>)

\* getRunPreCommands: reads the file itself and returns [] on every failure
getRunPreCommands(f) ==
    IF ~existsSync(f, getConfigPath(projectRoot)) THEN <<>>
    ELSE IF f.yaml # "valid" THEN <<>>
    ELSE (IF ~f.raw.run.skip_setup THEN f.raw.setup.pre_commands ELSE <<>>)
         \o f.raw.run.pre_commands

------------------------------------------------------------------------------
(* resolver.ts *)

\* yarn.lock is looked for before pnpm-lock.yaml
detectPackageManager_YarnFirst(f) ==
    IF existsSync(f, resolve(projectRoot, "yarn.lock")) THEN "yarn"
    ELSE IF existsSync(f, resolve(projectRoot, "pnpm-lock.yaml")) THEN "pnpm"
    ELSE "npm"

detectPackageManager(f) ==
    IF existsSync(f, resolve(projectRoot, "pnpm-lock.yaml")) THEN "pnpm"
    ELSE IF existsSync(f, resolve(projectRoot, "yarn.lock")) THEN "yarn"
    ELSE "npm"

resolveCwd(cwd, root) ==
    IF ~Truthy(cwd) THEN root
    ELSE IF startsWithSlash(cwd) THEN cwd
    ELSE resolve(root, cwd)

\* the caller's skipSetup is not looked at
extractPreCommands_IgnoreSkipSetup(s, f) ==
    LET configCommands == getRunPreCommands(f)
    IN  [i \in 1..Len(configCommands) |->
            [argv |-> configCommands[i].argv,
             cwd  |-> resolveCwd(configCommands[i].cwd, projectRoot),
             env  |-> configCommands[i].env]]

extractPreCommands(s, f) ==
    IF s.skipSetup THEN <<>>
    ELSE LET configCommands == getRunPreCommands(f)
         IN  [i \in 1..Len(configCommands) |->
                 [argv |-> configCommands[i].argv,
                  cwd  |-> resolveCwd(configCommands[i].cwd, projectRoot),
                  env  |-> configCommands[i].env]]

ResolvedCommand(argv, mode, pre) ==
    [kind |-> "command", argv |-> argv, cwd |-> projectRoot, mode |-> mode,
     env |-> EmptyEnv, preCommands |-> pre, errorType |-> Undefined, message |-> <<>>]

\* a ResolvedCommand with `env: runConfig.env`
ResolvedCommandWithEnv(env, argv, mode, pre) ==
    [ResolvedCommand(argv, mode, pre) EXCEPT !.env = env]

ResolvedError(errorType, message) ==
    [kind |-> "error", argv |-> <<>>, cwd |-> Undefined, mode |-> Undefined,
     env |-> EmptyEnv, preCommands |-> <<>>, errorType |-> errorType, message |-> message]

\* an exception that leaves resolveRunSpec (it has no try/catch)
Thrown(error) ==
    [kind |-> "throw", argv |-> <<>>, cwd |-> Undefined, mode |-> Undefined,
     env |-> EmptyEnv, preCommands |-> <<>>, errorType |-> error, message |-> <<>>]

\* a missing entrypoint is not taken for an error
isResolvedError_NotNoEntrypoint(r) ==
    r.kind = "error" /\ r.errorType # "no_entrypoint"

isResolvedError(r) == r.kind = "error"

isResolvedCommand(r) == r.kind = "command"

resolveFromScript(s, f) ==
    LET runner == IF Truthy(s.runner) THEN s.runner ELSE detectPackageManager(f)
        argv   == <<runner, "run", s.script>>
    IN  ResolvedCommand(
            IF Len(s.args) > 0
            THEN (IF runner = "npm" THEN argv \o <<"--">> ELSE argv) \o s.args
            ELSE argv,
            "cli_script", extractPreCommands(s, f))

\* the arguments of a config-path command follow a separator
resolveFromConfig_Separator(s, f) ==
    LET configAbs == resolve(projectRoot, s.configPath)
    IN  IF ~existsSync(f, configAbs)
        THEN ResolvedError("config_not_found",
                           <<"Playwright config not found: ", configAbs>>)
        ELSE ResolvedCommand(
                <<"npx", "playwright", "test", ConfigFlag(s.configPath)>>
                \o (IF Len(s.args) > 0 THEN <<"--">> ELSE <<>>) \o s.args,
                "cli_config", extractPreCommands(s, f))

resolveFromConfig(s, f) ==
    LET configAbs == resolve(projectRoot, s.configPath)
    IN  IF ~existsSync(f, configAbs)
        THEN ResolvedError("config_not_found",
                           <<"Playwright config not found: ", configAbs>>)
        ELSE ResolvedCommand(
                <<"npx", "playwright", "test", ConfigFlag(s.configPath)>> \o s.args,
                "cli_config", extractPreCommands(s, f))

\* the result `null` of resolveFromRunConfig
NoResult == [kind |-> "null", argv |-> <<>>, cwd |-> Undefined, mode |-> Undefined,
             env |-> EmptyEnv, preCommands |-> <<>>, errorType |-> Undefined, message |-> <<>>]

\* the persisted config path is tried before the persisted script
resolveFromRunConfig_ConfigPathFirst(runConfig, s, f) ==
    LET preCommands == extractPreCommands(s, f)
        allArgs     == runConfig.args \o s.args
        configAbs   == resolve(projectRoot, runConfig.configPath)
        runner      == IF Truthy(runConfig.runner) THEN runConfig.runner
                       ELSE detectPackageManager(f)
        argv        == <<runner, "run", runConfig.script>>
    IN  IF Truthy(runConfig.configPath)
        THEN IF ~existsSync(f, configAbs)
             THEN ResolvedError("config_not_found",
                     <<"Playwright config from kitwe.yaml not found: ", configAbs>>)
             ELSE ResolvedCommandWithEnv(runConfig.env,
                     <<"npx", "playwright", "test",
                       ConfigFlag(runConfig.configPath)>> \o allArgs,
                     "yaml_config", preCommands)
        ELSE IF Truthy(runConfig.script)
        THEN ResolvedCommandWithEnv(runConfig.env,
                 IF Len(allArgs) > 0
                 THEN (IF runner = "npm" THEN argv \o <<"--">> ELSE argv) \o allArgs
                 ELSE argv,
                 "yaml_script", preCommands)
        ELSE NoResult

resolveFromRunConfig(runConfig, s, f) ==
    IF ~(Truthy(runConfig.script) \/ Truthy(runConfig.configPath)) THEN NoResult
    ELSE
    LET preCommands == extractPreCommands(s, f)
        allArgs     == runConfig.args \o s.args
    IN  IF Truthy(runConfig.script)
        THEN LET runner == IF Truthy(runConfig.runner) THEN runConfig.runner
                           ELSE detectPackageManager(f)
                 argv   == <<runner, "run", runConfig.script>>
             IN  ResolvedCommandWithEnv(runConfig.env,
                     IF Len(allArgs) > 0
                     THEN (IF runner = "npm" THEN argv \o <<"--">> ELSE argv) \o allArgs
                     ELSE argv,
                     "yaml_script", preCommands)
        ELSE LET configAbs == resolve(projectRoot, runConfig.configPath)
             IN  IF ~existsSync(f, configAbs)
                 THEN ResolvedError("config_not_found",
                         <<"Playwright config from kitwe.yaml not found: ", configAbs>>)
                 ELSE ResolvedCommandWithEnv(runConfig.env,
                         <<"npx", "playwright", "test",
                           ConfigFlag(runConfig.configPath)>> \o allArgs,
                         "yaml_config", preCommands)

NoEntrypoint ==
    ResolvedError("no_entrypoint", <<"Run entrypoint not configured.">>)

\* the caller's config path is tried before the caller's script
resolveTiers_ConfigFirst(s, f, runConfig) ==
    IF Truthy(s.configPath) THEN resolveFromConfig(s, f)
    ELSE IF Truthy(s.script) THEN resolveFromScript(s, f)
    ELSE IF runConfig.kind = "config"
            /\ resolveFromRunConfig(runConfig.run, s, f).kind # "null"
         THEN resolveFromRunConfig(runConfig.run, s, f)
    ELSE NoEntrypoint

\* the four priorities, once the project root exists and the run
\* configuration was loaded
resolveTiers(s, f, runConfig) ==
    IF Truthy(s.script) THEN resolveFromScript(s, f)
    ELSE IF Truthy(s.configPath) THEN resolveFromConfig(s, f)
    ELSE IF runConfig.kind = "config"
            /\ resolveFromRunConfig(runConfig.run, s, f).kind # "null"
         THEN resolveFromRunConfig(runConfig.run, s, f)
    ELSE NoEntrypoint

\* the tiers are evaluated before the project root is looked at
resolveRunSpec_RootCheckLast(s, f) ==
    LET runConfig == loadRunConfig(f)
        r == IF runConfig.kind = "throw" THEN Thrown(runConfig.error)
             ELSE resolveTiers(s, f, runConfig)
    IN  IF r.kind = "command" \/ existsSync(f, projectRoot) THEN r
        ELSE ResolvedError("project_not_found",
                           <<"Project root does not exist: ", projectRoot>>)

resolveRunSpec(s, f) ==
    IF ~existsSync(f, projectRoot)
    THEN ResolvedError("project_not_found",
                       <<"Project root does not exist: ", projectRoot>>)
    ELSE LET runConfig == loadRunConfig(f)
         IN  IF runConfig.kind = "throw" THEN Thrown(runConfig.error)
             ELSE resolveTiers(s, f, runConfig)

------------------------------------------------------------------------------
(* executor.ts: values *)

\* template-literal conversion of a loop index
IndexStr(i) ==
    CASE i = 0 -> "0" [] i = 1 -> "1" [] i = 2 -> "2" [] i = 3 -> "3"
      [] i = 4 -> "4" [] OTHER -> "5"

\* every pre-command writes the same log file
PreLogPath_Shared(i) == "logs/pre_command.log"

\* join(logsDir, `pre_command_${i}.log`)
PreLogPath(i) ==
    CASE i = 0 -> "logs/pre_command_0.log" [] i = 1 -> "logs/pre_command_1.log"
      [] i = 2 -> "logs/pre_command_2.log" [] i = 3 -> "logs/pre_command_3.log"
      [] i = 4 -> "logs/pre_command_4.log" [] OTHER -> "logs/pre_command_5.log"

\* argv.join(' ')
RECURSIVE JoinSpace(_)
JoinSpace(argv) ==
    IF Len(argv) = 0 THEN <<>>
    ELSE IF Len(argv) = 1 THEN argv
    ELSE <<Head(argv), " ">> \o JoinSpace(Tail(argv))

\* exit codes a process ends with by itself
ExitCodes == {0, 1}

\* the exit code `null` of a process ended by a signal, or of a spawn error
NullCode == <<>>

CodeStr(code) ==
    IF code = NullCode THEN "null" ELSE IF code = <<0>> THEN "0" ELSE "1"

NoRunResult ==
    [status |-> "none", exitCode |-> 0, artifacts |-> <<>>, command |-> <<>>,
     error |-> <<>>]

createErrorResult(errorType, errorMessage) ==
    [status |-> "error", exitCode |-> -1, artifacts |-> <<>>, command |-> <<>>,
     error |-> <<"[", errorType, "] ">> \o errorMessage]

NoChild ==
    [label |-> [kind |-> "none", idx |-> 0], logPath |-> Undefined, st |-> "none", hang |-> FALSE,
     onTerm |-> "die", code |-> NullCode, timer |-> "none", timedOut |-> FALSE,
     killed |-> FALSE, grace |-> "none", sigterm |-> FALSE, sigkill |-> FALSE,
     aliveAtDeadline |-> FALSE, aliveAtGrace |-> FALSE]

NotSettled == [done |-> FALSE, exitCode |-> NullCode, timedOut |-> FALSE]

\* how a spawn can go: a process, an exception of spawn(), an 'error' event
SpawnOutcome == {"ok", "throw", "error"}

\* what a process does when it receives SIGTERM: it dies of the signal,
\* ignores it, or handles it and exits with code 0
OnTerm == {"die", "ignore", "exit0"}

\* runCommand up to the return of its promise: spawn, setTimeout
NewChild(label, logPath, outcome, hang, onTerm) ==
    [label |-> label, logPath |-> logPath,
     st |-> IF outcome = "ok" THEN "running" ELSE "spawnerr",
     hang |-> hang, onTerm |-> onTerm, code |-> NullCode, timer |-> "armed",
     timedOut |-> FALSE, killed |-> FALSE, grace |-> "none",
     sigterm |-> FALSE, sigkill |-> FALSE,
     aliveAtDeadline |-> FALSE, aliveAtGrace |-> FALSE]

PreLabel(i) == [kind |-> "pre", idx |-> i]

MainLabel == [kind |-> "main", idx |-> 0]

getArtifactType(name) ==
    CASE name = "shot.png"    -> "screenshot"
      [] name = "trace.zip"   -> "trace"
      [] name = "video.webm"  -> "video"
      [] name = "report.html" -> "report"
      [] OTHER                -> Undefined

\* A node of the directory tree: a file or a directory with its entries.
\* statOk is whether statSync of the node succeeds, readOk whether
\* readdirSync of it does.
File(name) ==
    [name |-> name, type |-> "file", statOk |-> TRUE, readOk |-> FALSE,
     entries |-> <<>>]

Dir(name, entries) ==
    [name |-> name, type |-> "dir", statOk |-> TRUE, readOk |-> TRUE,
     entries |-> entries]

NoNode ==
    [name |-> "", type |-> "none", statOk |-> FALSE, readOk |-> FALSE,
     entries |-> <<>>]

\* A path is the sequence of its names; an absolute one starts with "/".
\* The path a relative one stands for in the working directory cwd.
Absolute(p, cwd) == IF Len(p) > 0 /\ p[1] = "/" THEN p ELSE cwd \o p

\* the node of the tree beneath `node` that the names lead to
RECURSIVE Lookup(_, _)
Lookup(node, names) ==
    IF Len(names) = 0 THEN node
    ELSE LET hits == {i \in 1..Len(node.entries) :
                         node.entries[i].name = Head(names)}
         IN  IF node.type # "dir" \/ hits = {} THEN NoNode
             ELSE Lookup(node.entries[CHOOSE i \in hits : TRUE], Tail(names))

\* the node a path names
NodeAt(f, p) == Lookup(f.tree, Tail(Absolute(p, f.cwd)))

\* existsSync(dir) of a path of the tree
existsSyncPath(f, p) == NodeAt(f, p).type # "none"

\* the recursion goes one level deeper
DepthExceeded_Four(depth) == depth > 4

\* `if (depth > 3) return`
DepthExceeded(depth) == depth > 3

\* collectArtifactsFromDir(dir, artifacts, depth): the artifacts it pushes,
\* the directories it calls readdirSync on, and whether it throws (which
\* only its readdirSync can make it do); ScanEntries is its loop over the
\* entries, from entry k on
RECURSIVE collectArtifactsFromDir(_, _, _), ScanEntries(_, _, _, _, _)
collectArtifactsFromDir(f, dir, depth) ==
    IF DepthExceeded(depth)
    THEN [artifacts |-> <<>>, read |-> {}, threw |-> FALSE]
    ELSE LET node == NodeAt(f, dir)
         IN  IF node.type # "dir" \/ ~node.readOk
             THEN [artifacts |-> <<>>, read |-> {dir}, threw |-> TRUE]
             ELSE LET rest == ScanEntries(f, dir, node.entries, 1, depth)
                  IN  [artifacts |-> rest.artifacts,
                       read |-> {dir} \cup rest.read, threw |-> FALSE]

ScanEntries(f, dir, entries, k, depth) ==
    IF k > Len(entries) THEN [artifacts |-> <<>>, read |-> {}]
    ELSE LET entry    == entries[k]
             fullPath == Append(dir, entry.name)
             rest     == ScanEntries(f, dir, entries, k + 1, depth)
         IN  IF ~entry.statOk THEN rest
             ELSE IF entry.type = "dir"
             THEN LET sub == collectArtifactsFromDir(f, fullPath, depth + 1)
                  IN  [artifacts |-> sub.artifacts \o rest.artifacts,
                       read |-> sub.read \cup rest.read]
             ELSE IF getArtifactType(entry.name) # Undefined
             THEN [artifacts |->
                       <<[type |-> getArtifactType(entry.name),
                          path |-> fullPath, name |-> entry.name]>>
                       \o rest.artifacts,
                   read |-> rest.read]
             ELSE rest

\* the directories collectArtifacts looks in
searchDirs(outputDir) ==
    <<<<"/", "proj", "test-results">>, <<"/", "proj", "playwright-report">>,
      outputDir>>

\* collectArtifacts(projectRoot, outputDir): the artifacts and the
\* directories read, from search directory k on
RECURSIVE CollectFrom(_, _, _)
CollectFrom(f, dirs, k) ==
    IF k > Len(dirs) THEN [artifacts |-> <<>>, read |-> {}]
    ELSE LET rest == CollectFrom(f, dirs, k + 1)
         IN  IF ~existsSyncPath(f, dirs[k]) THEN rest
             ELSE LET one == collectArtifactsFromDir(f, dirs[k], 0)
                  IN  [artifacts |-> one.artifacts \o rest.artifacts,
                       read |-> one.read \cup rest.read]

\* the scan without its try/catch: a candidate that cannot be read ends it
collectArtifacts_NoCatch(f, outputDir) ==
    LET dirs  == searchDirs(outputDir)
        fails == {k \in 1..Len(dirs) :
                     /\ existsSyncPath(f, dirs[k])
                     /\ collectArtifactsFromDir(f, dirs[k], 0).threw}
    IN  IF fails = {} THEN CollectFrom(f, dirs, 1)
        ELSE [artifacts |-> <<>>, read |-> {dirs[k] : k \in fails}]

collectArtifacts(f, outputDir) == CollectFrom(f, searchDirs(outputDir), 1)

\* `spec.outputDir || 'test-results'`; an output directory that is not
\* given is the empty path
OutputDirOrDefault(s) ==
    IF Len(s.outputDir) = 0 THEN <<"test-results">> ELSE s.outputDir

\* mkdirSync(logsDir, {recursive: true}); mkdirSync(reportsDir, ...): a
\* relative artifacts directory lies beneath the project root, which the
\* recursive creation creates with it
mkdirSync(f, artifactsDir) ==
    IF startsWithSlash(artifactsDir) THEN f
    ELSE [f EXCEPT !.rootExists = TRUE,
                   !.files = @ \cup {resolve(projectRoot, artifactsDir)},
                   !.tree = IF f.rootExists THEN @
                            ELSE Dir("/", <<Dir("proj", <<>>)>>)]

\* prepareCommandWithReporter.  `argv.join(' ').includes('--reporter')`: the
\* needle holds no space, so it occurs in the joined string exactly when it
\* occurs in one of the tokens; these are the tokens of the model that hold it

\* a reporter flag in the argv is not seen
HasReporter_Never(tok) == FALSE

HasReporter(tok) == tok \in {"--reporter=dot", "--reporter=list"}

HasTrace(tok) == tok \in {"--trace=on", "--trace=retain-on-failure"}

\* the flags are appended without a separator in the script modes
prepareCommandWithReporter_NoSeparator(r) ==
    LET argv == r.argv
        flagsToInject ==
            (IF \E i \in 1..Len(argv) : HasReporter(argv[i]) THEN <<>>
             ELSE <<"--reporter=list">>)
            \o (IF \E i \in 1..Len(argv) : HasTrace(argv[i]) THEN <<>>
                ELSE <<"--trace=retain-on-failure">>)
    IN  argv \o flagsToInject

prepareCommandWithReporter(r) ==
    LET argv == r.argv
        flagsToInject ==
            (IF \E i \in 1..Len(argv) : HasReporter(argv[i]) THEN <<>>
             ELSE <<"--reporter=list">>)
            \o (IF \E i \in 1..Len(argv) : HasTrace(argv[i]) THEN <<>>
                ELSE <<"--trace=retain-on-failure">>)
    IN  IF Len(flagsToInject) = 0 THEN argv
        ELSE IF r.mode \in {"yaml_script", "cli_script"}
        THEN (IF \E i \in 1..Len(argv) : argv[i] = "--" THEN argv
              ELSE argv \o <<"--">>) \o flagsToInject
        ELSE IF r.mode \in {"cli_config", "yaml_config"}
        THEN argv \o flagsToInject
        ELSE argv

\* the exit code decides before the timeout flag
StatusOf_ExitCodeFirst(res) ==
    IF res.exitCode = <<0>> THEN "passed"
    ELSE IF res.timedOut THEN "timeout"
    ELSE IF res.exitCode = NullCode THEN "error"
    ELSE "failed"

\* the status and error summary of a run whose main command settled
StatusOf(res) ==
    IF res.timedOut THEN "timeout"
    ELSE IF res.exitCode = NullCode THEN "error"
    ELSE IF res.exitCode = <<0>> THEN "passed"
    ELSE "failed"

ErrorsOf(res) ==
    IF res.timedOut THEN <<"Execution exceeded ", "timeoutSeconds", "s timeout">>
    ELSE IF res.exitCode = NullCode THEN <<"Process terminated abnormally">>
    ELSE <<>>

\* result.exitCode ?? -1
ExitCodeOrMinusOne(code) == IF code = NullCode THEN -1 ELSE code[1]

------------------------------------------------------------------------------
(* The calls and file systems the model starts from *)

SeqsUpTo(S, n) == UNION {[1..k -> S] : k \in 0..n}

\* extra arguments a caller or kitwe.yaml can give
ArgTokens == {"--headed", "--reporter=dot"}

\* the k-th entry of setup.pre_commands
SetupCommand(k) ==
    CASE k = 1 -> [argv |-> <<"npm", "run", "db:reset">>, cwd |-> Undefined,
                   env |-> EmptyEnv]
      [] k = 2 -> [argv |-> <<"npm", "run", "db:seed">>, cwd |-> "backend",
                   env |-> EmptyEnv]
      [] k = 3 -> [argv |-> <<"docker", "compose", "up">>, cwd |-> "/opt/tools",
                   env |-> EmptyEnv]
      [] OTHER -> [argv |-> <<"sh", "setup.sh">>, cwd |-> Undefined,
                   env |-> EmptyEnv]

\* the entry of run.pre_commands
RunCommand == [argv |-> <<"npm", "run", "migrate">>, cwd |-> Undefined,
               env |-> EmptyEnv]

SetupLists(n) == {[i \in 1..k |-> SetupCommand(i)] : k \in 0..n}

RunLists == {<<>>, <<RunCommand>>}

\* the zod output of a kitwe.yaml that gives only `version: 1`
DefaultRaw ==
    [run   |-> [runner |-> Undefined, script |-> Undefined,
                config_path |-> Undefined, args |-> <<>>, env |-> EmptyEnv,
                skip_setup |-> FALSE, pre_commands |-> <<>>],
     setup |-> [pre_commands |-> <<>>],
     tests |-> [test_dir |-> Undefined, pattern |-> Undefined]]

\* the files beneath an existing project root, lock files aside
ProjectFiles == {"/proj/pw.config.ts", "/proj/yaml.config.ts",
                 "/proj/test-results"}

LockFiles == {"/proj/pnpm-lock.yaml", "/proj/yarn.lock"}

\* the environment a call inherits when nothing else is said
InheritedEnv == [HOME |-> "/home/dev", CI |-> "inherited"]

\* the directory tree of a project with a screenshot in test-results
DefaultTree ==
    Dir("/", <<Dir("proj", <<Dir("test-results",
                                <<File("shot.png"), File("notes.txt")>>)>>)>>)

\* a project root that does not exist holds nothing
NoProject(mkdirFails) ==
    [rootExists |-> FALSE, yaml |-> "absent", raw |-> DefaultRaw, files |-> {},
     tree |-> Dir("/", <<>>), cwd |-> <<"/", "proj">>,
     mkdirFails |-> mkdirFails]

Project(yaml, raw, locks, mkdirFails) ==
    [rootExists |-> TRUE, yaml |-> yaml,
     raw |-> IF yaml = "valid" THEN raw ELSE DefaultRaw,
     files |-> ProjectFiles \cup locks,
     tree |-> DefaultTree, cwd |-> <<"/", "proj">>, mkdirFails |-> mkdirFails]

\* runs: few entrypoints, every shape of the pre-command lists
ExecSpecs ==
    [script : {Undefined, "test:e2e"},
     configPath : {Undefined, "pw.config.ts", "missing.config.ts"},
     runner : {Undefined}, args : {<<>>}, env : {EmptyEnv}, skipSetup : BOOLEAN,
     artifactsDir : {"artifacts/kitwe", "/var/artifacts"}, outputDir : {<<>>}]

ExecRaws ==
    {[DefaultRaw EXCEPT !.run.script = s, !.run.config_path = c,
                        !.run.skip_setup = k,
                        !.run.pre_commands = rp, !.setup.pre_commands = sp] :
        s \in {Undefined, "e2e"}, c \in {Undefined, "yaml.config.ts"},
        k \in BOOLEAN, rp \in RunLists, sp \in SetupLists(MaxPre)}

ExecFs ==
    {NoProject(m) : m \in BOOLEAN}
    \cup {Project(y, DefaultRaw, {}, m) : y \in YamlState \ {"valid"}, m \in BOOLEAN}
    \cup {Project("valid", raw, {}, m) : raw \in ExecRaws, m \in BOOLEAN}

\* resolutions: every entrypoint, runner, lock file and argument list
ResolveSpecs ==
    [script : {Undefined, "", "test:e2e"},
     configPath : {Undefined, "pw.config.ts", "missing.config.ts"},
     runner : RunnerType \cup {Undefined}, args : SeqsUpTo(ArgTokens, MaxArgs),
     env : {EmptyEnv}, skipSetup : BOOLEAN, artifactsDir : {"artifacts/kitwe"},
     outputDir : {<<>>}]

\* the tests sections of kitwe.yaml: test_dir and pattern, each given or not
TestsSections ==
    [test_dir : {Undefined, "e2e"}, pattern : {Undefined, "**/*.spec.ts"}]

ResolveRaws ==
    {[run   |-> [runner |-> r, script |-> s, config_path |-> c, args |-> a,
                 env |-> EmptyEnv, skip_setup |-> FALSE, pre_commands |-> <<RunCommand>>],
      setup |-> [pre_commands |-> <<SetupCommand(1)>>],
      tests |-> t] :
        r \in {Undefined, "pnpm"}, s \in {Undefined, "e2e"},
        c \in {Undefined, "yaml.config.ts", "gone.config.ts"},
        a \in {<<>>, <<"--workers=1">>},
        t \in TestsSections}

ResolveFs ==
    {NoProject(FALSE)}
    \cup {Project(y, DefaultRaw, l, FALSE) :
            y \in YamlState \ {"valid"}, l \in SUBSET LockFiles}
    \cup {Project("valid", raw, l, FALSE) :
            raw \in ResolveRaws, l \in SUBSET LockFiles}

\* bound: longest list of caller arguments of the flag-injection inputs
MaxFlagArgs == 2

\* arguments that matter to the injection: a plain flag, a separator, a
\* reporter flag, a trace flag
FlagTokens == {"--headed", "--", "--reporter=dot", "--trace=on"}

PrepareSpecs ==
    [script : {Undefined, "test:e2e"}, configPath : {Undefined, "pw.config.ts"},
     runner : {Undefined, "pnpm"}, args : SeqsUpTo(FlagTokens, MaxFlagArgs),
     env : {EmptyEnv}, skipSetup : {TRUE}, artifactsDir : {"artifacts/kitwe"},
     outputDir : {<<>>}]

PrepareRaws ==
    {[DefaultRaw EXCEPT !.run.script = s, !.run.config_path = c, !.run.args = a] :
        s \in {Undefined, "e2e"}, c \in {Undefined, "yaml.config.ts"},
        a \in {<<>>, <<"--trace=on">>}}

PrepareFs == {Project("valid", raw, {}, FALSE) : raw \in PrepareRaws}

\* bound: the deepest directory beneath test-results
MaxScanDepth == 5

\* the name of the directory at depth k beneath test-results
LevelName(k) ==
    CASE k = 1 -> "d1" [] k = 2 -> "d2" [] k = 3 -> "d3" [] k = 4 -> "d4"
      [] k = 5 -> "d5" [] k = 6 -> "d6" [] OTHER -> "d7"

\* The entries of the directory at depth k of a chain of directories n
\* deep: a trace, the next directory, a screenshot and a text file.
\* readdirSync fails on the directory at depth u, statSync on the trace of
\* the directory at depth b (-1: on none).
RECURSIVE Level(_, _, _, _)
Level(k, n, u, b) ==
    <<[File("trace.zip") EXCEPT !.statOk = (b # k)]>>
    \o (IF k < n
        THEN <<[Dir(LevelName(k + 1), Level(k + 1, n, u, b))
                   EXCEPT !.readOk = (u # k + 1)]>>
        ELSE <<>>)
    \o <<File("shot.png"), File("notes.txt")>>

\* the failures of one scan: none, one readdirSync, or one statSync
Failures(n) ==
    {<<-1, -1>>} \cup {<<k, -1>> : k \in 0..n} \cup {<<-1, k>> : k \in 0..n}

\* test-results as above; playwright-report absent, readable or not;
\* /var/out with a video
ScanTree(n, u, b, r) ==
    Dir("/",
        <<Dir("proj",
              <<[Dir("test-results", Level(0, n, u, b))
                    EXCEPT !.readOk = (u # 0)]>> \o r),
          Dir("var", <<Dir("out", <<File("video.webm")>>)>>)>>)

Reports ==
    {<<>>,
     <<Dir("playwright-report", <<File("report.html")>>)>>,
     <<[Dir("playwright-report", <<File("report.html")>>)
           EXCEPT !.readOk = FALSE]>>}

ScanTrees ==
    UNION {{ScanTree(n, f[1], f[2], r) : f \in Failures(n), r \in Reports} :
              n \in 0..MaxScanDepth}

\* the output directories a caller names: none, one of its own, the
\* conventional ones, one inside test-results
OutputDirs ==
    {<<>>, <<"/", "var", "out">>, <<"/", "proj", "test-results">>,
     <<"/", "proj", "playwright-report">>,
     <<"/", "proj", "test-results", "d1">>}

ScanSpecs ==
    [script : {"test:e2e"}, configPath : {Undefined}, runner : {Undefined},
     args : {<<>>}, env : {EmptyEnv}, skipSetup : {FALSE},
     artifactsDir : {"/var/artifacts"}, outputDir : OutputDirs]

\* a project without kitwe.yaml on every tree, started in the project root;
\* one started elsewhere; one whose kitwe.yaml has a setup command
ScanFs ==
    {[Project("absent", DefaultRaw, {}, FALSE) EXCEPT !.tree = t] :
        t \in ScanTrees}
    \cup {[Project("absent", DefaultRaw, {}, FALSE)
              EXCEPT !.tree = ScanTree(1, -1, -1, <<>>), !.cwd = <<"/", "var">>],
          [Project("valid",
                   [DefaultRaw EXCEPT !.setup.pre_commands = <<SetupCommand(1)>>],
                   {}, FALSE)
              EXCEPT !.tree = ScanTree(1, -1, -1, <<>>)]}

\* variable names that the layers of the environment compete for
EnvNames == {"CI", "APP"}

\* the overlays of one layer: any of the names, each with the layer's value
Overlays(value) == {[n \in S |-> value] : S \in SUBSET EnvNames}

\* runs whose environment layers vary: a caller script or a persisted one,
\* one setup command and one run command with overlays of their own
EnvSpecs ==
    [script : {Undefined, "test:e2e"}, configPath : {Undefined},
     runner : {Undefined}, args : {<<>>}, env : Overlays("spec"),
     skipSetup : {FALSE}, artifactsDir : {"/var/artifacts"},
     outputDir : {<<>>}]

EnvRaws ==
    {[DefaultRaw EXCEPT
         !.run.script = "e2e", !.run.env = c,
         !.setup.pre_commands = <<[SetupCommand(1) EXCEPT !.env = p1]>>,
         !.run.pre_commands = <<[RunCommand EXCEPT !.env = p2]>>] :
        c \in Overlays("config"), p1 \in Overlays("setup"),
        p2 \in Overlays("run")}

EnvFs == {Project("valid", raw, {}, FALSE) : raw \in EnvRaws}

InitRest ==
    /\ pc = "start"
    /\ resolved = NoResult
    /\ preIdx = 0
    /\ child = NoChild
    /\ settled = NotSettled
    /\ spawned = <<>>
    /\ ended = <<>>
    /\ alive = {}
    /\ progress = <<>>
    /\ logs = {}
    /\ result = NoRunResult
    /\ scanned = {}
    /\ thrown = Undefined

Init ==
    /\ processEnv = InheritedEnv
    /\ spec \in ExecSpecs
    /\ fs \in ExecFs
    /\ InitRest

InitEnv ==
    /\ processEnv \in {[HOME |-> "/home/dev"],
                        [HOME |-> "/home/dev", CI |-> "inherited",
                         APP |-> "inherited"]}
    /\ spec \in EnvSpecs
    /\ fs \in EnvFs
    /\ InitRest

InitScan ==
    /\ processEnv = InheritedEnv
    /\ spec \in ScanSpecs
    /\ fs \in ScanFs
    /\ InitRest

InitPrepare ==
    /\ processEnv = InheritedEnv
    /\ spec \in PrepareSpecs
    /\ fs \in PrepareFs
    /\ InitRest

InitResolve ==
    /\ processEnv = InheritedEnv
    /\ spec \in ResolveSpecs
    /\ fs \in ResolveFs
    /\ InitRest

------------------------------------------------------------------------------
(* executor.ts: runValidate, runPreCommands, runCommand *)

\* the tag 'execute' is not passed on
onProgress_SkipExecute(prog, step) ==
    IF step = "execute" THEN prog ELSE Append(prog, step)

\* `if (onProgress) onProgress(step, detail)`: the tags received so far
onProgress(prog, step) == Append(prog, step)

\* the overlay of kitwe.yaml is assigned before the caller's
buildRunEnv_ConfigBeforeSpec(s, r, penv) ==
    AssignEnv(AssignEnv(AssignEnv(penv,
                  [CI |-> "true", PLAYWRIGHT_HTML_OPEN |-> "never"]),
              r.env), s.env)

\* runEnv of runValidate: process.env, the two forced variables, spec.env,
\* resolved.env, each assigned over the ones before it
buildRunEnv(s, r, penv) ==
    AssignEnv(AssignEnv(AssignEnv(penv,
                  [CI |-> "true", PLAYWRIGHT_HTML_OPEN |-> "never"]),
              s.env), r.env)

\* The synchronous code of runValidate from the head of iteration i of the
\* loop of runPreCommands (from the injection of the reporter flags when
\* the loop is over) to the next await or return.  prog is the progress
\* reported so far.
RunFrom(i, r, prog) ==
    \E outcome \in SpawnOutcome, hang \in BOOLEAN, onTerm \in OnTerm :
        /\ outcome # "ok" => (~hang /\ onTerm = "die")
        /\ settled' = NotSettled
        /\ IF i < Len(r.preCommands)
           THEN /\ progress' = onProgress(prog, "pre_command")
                /\ preIdx' = i
                /\ IF outcome = "throw"
                   THEN /\ result' = createErrorResult("pre_command_failed",
                                <<"Pre-command ", IndexStr(i), " error: ",
                                  "spawn failed">>)
                        /\ pc' = "done"
                        /\ UNCHANGED <<child, spawned, alive>>
                   ELSE /\ child' = NewChild(PreLabel(i), PreLogPath(i),
                                             outcome, hang, onTerm)
                        /\ spawned' = Append(spawned,
                               [label |-> PreLabel(i),
                                argv  |-> r.preCommands[i + 1].argv,
                                env   |-> AssignEnv(buildRunEnv(spec, r, processEnv),
                                                    r.preCommands[i + 1].env)])
                        /\ alive' = IF outcome = "ok"
                                    THEN alive \cup {PreLabel(i)} ELSE alive
                        /\ pc' = "pre"
                        /\ UNCHANGED result
           ELSE LET finalArgv == prepareCommandWithReporter(r)
                IN  /\ progress' = onProgress(prog, "execute")
                    /\ UNCHANGED preIdx
                    /\ IF outcome = "throw"
                       THEN /\ result' = createErrorResult("execution_error",
                                                           <<"spawn failed">>)
                            /\ pc' = "done"
                            /\ UNCHANGED <<child, spawned, alive>>
                       ELSE /\ child' = NewChild(MainLabel, Undefined,
                                                 outcome, hang, onTerm)
                            /\ spawned' = Append(spawned,
                                   [label |-> MainLabel, argv |-> finalArgv,
                                    env   |-> buildRunEnv(spec, r, processEnv)])
                            /\ alive' = IF outcome = "ok"
                                        THEN alive \cup {MainLabel} ELSE alive
                            /\ pc' = "main"
                            /\ UNCHANGED result

\* runValidate up to its first await: the directories, the resolution, the
\* environment, the first command
Start ==
    /\ pc = "start"
    /\ UNCHANGED <<spec, processEnv, scanned, ended, logs>>
    /\ IF fs.mkdirFails
       THEN /\ thrown' = "mkdirSync"
            /\ pc' = "thrown"
            /\ UNCHANGED <<fs, resolved, preIdx, child, settled, spawned,
                           alive, progress, result>>
       ELSE LET f2 == mkdirSync(fs, spec.artifactsDir)
                r  == resolveRunSpec(spec, f2)
            IN  /\ fs' = f2
                /\ resolved' = r
                /\ IF r.kind = "throw"
                   THEN /\ thrown' = r.errorType
                        /\ pc' = "thrown"
                        /\ progress' = onProgress(<<>>, "resolve")
                        /\ UNCHANGED <<preIdx, child, settled, spawned,
                                       alive, result>>
                   ELSE IF isResolvedError(r)
                   THEN /\ result' = createErrorResult(r.errorType, r.message)
                        /\ pc' = "done"
                        /\ progress' = onProgress(<<>>, "resolve")
                        /\ UNCHANGED <<preIdx, child, settled, spawned,
                                       alive, thrown>>
                   ELSE /\ UNCHANGED thrown
                        /\ IF Len(r.preCommands) > 0
                           THEN RunFrom(0, r,
                                    onProgress(onProgress(<<>>, "resolve"), "setup"))
                           ELSE RunFrom(0, r, onProgress(<<>>, "resolve"))

\* a null exit code counts as a failure
PreCommandFailed_NullIsSuccess(res) ==
    res.exitCode # <<0>> /\ res.exitCode # NullCode

\* `result.exitCode !== 0` of runPreCommands
PreCommandFailed(res) == res.exitCode # <<0>>

\* runPreCommands after `await runCommand(...)`, and runValidate after
\* `await runPreCommands(...)`
AfterPre ==
    /\ pc = "pre"
    /\ settled.done
    /\ UNCHANGED <<spec, processEnv, scanned, fs, resolved, ended, logs, thrown>>
    /\ IF PreCommandFailed(settled)
       THEN /\ result' = createErrorResult("pre_command_failed",
                    <<"Pre-command ", IndexStr(preIdx),
                      " failed with exit code ", CodeStr(settled.exitCode), ": ">>
                    \o JoinSpace(resolved.preCommands[preIdx + 1].argv)
                    \o <<"\nSee log: ", PreLogPath(preIdx)>>)
            /\ pc' = "done"
            /\ UNCHANGED <<preIdx, child, settled, spawned, alive, progress>>
       ELSE RunFrom(preIdx + 1, resolved, progress)

\* runValidate after `await runCommand(finalArgv, ...)`
AfterMain ==
    /\ pc = "main"
    /\ settled.done
    /\ logs' = logs \cup {"logs/stdout.log", "logs/stderr.log"}
    /\ progress' = onProgress(onProgress(progress, "collect"), "complete")
    /\ result' = [status    |-> StatusOf(settled),
                  exitCode  |-> ExitCodeOrMinusOne(settled.exitCode),
                  artifacts |-> collectArtifacts(fs, OutputDirOrDefault(spec)).artifacts,
                  command   |-> spawned[Len(spawned)].argv,
                  error     |-> ErrorsOf(settled)]
    /\ scanned' = collectArtifacts(fs, OutputDirOrDefault(spec)).read
    /\ pc' = "done"
    /\ UNCHANGED <<spec, processEnv, fs, resolved, preIdx, child, settled, spawned, ended,
                   alive, thrown>>

\* the process exits by itself with code c; its output streams stay open
ProcExit(c) ==
    /\ child.st = "running"
    /\ ~child.hang
    /\ child' = [child EXCEPT !.st = "exited", !.code = <<c>>]
    /\ alive' = alive \ {child.label}
    /\ UNCHANGED <<spec, processEnv, scanned, fs, pc, resolved, preIdx, settled, spawned, ended,
                   progress, logs, result, thrown>>

\* the process reacts to the SIGTERM it received
TermResponse ==
    /\ child.st = "running"
    /\ child.sigterm
    /\ child.onTerm # "ignore"
    /\ child' = [child EXCEPT !.st = "exited",
                              !.code = IF child.onTerm = "exit0" THEN <<0>>
                                       ELSE NullCode]
    /\ alive' = alive \ {child.label}
    /\ UNCHANGED <<spec, processEnv, scanned, fs, pc, resolved, preIdx, settled, spawned, ended,
                   progress, logs, result, thrown>>

\* the callback of setTimeout(..., options.timeoutMs)
TimerFire ==
    /\ child.timer = "armed"
    /\ child.st \in {"running", "exited"}
    /\ child' = [child EXCEPT !.timer = "fired",
                              !.timedOut = TRUE,
                              !.aliveAtDeadline = (child.st = "running"),
                              \* child.kill('SIGTERM') reaches a live process
                              !.sigterm = (child.st = "running"),
                              !.killed = (child.st = "running"),
                              !.grace = "armed"]
    /\ UNCHANGED <<spec, processEnv, scanned, fs, pc, resolved, preIdx, settled, spawned, ended,
                   alive, progress, logs, result, thrown>>

\* the callback of setTimeout(..., 5000): SIGKILL unless child.killed.  A
\* process that receives SIGKILL exits.  The callback of a child whose
\* 'close' was handled does nothing (kill of an exited child is a no-op).
GraceFire ==
    /\ child.grace = "armed"
    /\ child.st \in {"running", "exited"}
    /\ LET kill == ~child.killed /\ child.st = "running"
       IN  /\ child' = [child EXCEPT
                            !.grace = "fired",
                            !.aliveAtGrace = (child.st = "running"),
                            !.sigkill = kill,
                            !.killed = child.killed \/ kill,
                            !.st = IF kill THEN "exited" ELSE child.st]
           /\ alive' = IF kill THEN alive \ {child.label} ELSE alive
    /\ UNCHANGED <<spec, processEnv, scanned, fs, pc, resolved, preIdx, settled, spawned, ended,
                   progress, logs, result, thrown>>

\* child.on('close'): the process has exited and its streams are closed
StreamsClose ==
    /\ child.st = "exited"
    /\ child' = [child EXCEPT !.st = "closed",
                              !.timer = IF @ = "armed" THEN "cleared" ELSE @]
    /\ logs' = IF child.logPath # Undefined THEN logs \cup {child.logPath}
               ELSE logs
    /\ settled' = [done |-> TRUE, exitCode |-> child.code,
                   timedOut |-> child.timedOut]
    /\ ended' = Append(ended, child.code)
    /\ UNCHANGED <<spec, processEnv, scanned, fs, pc, resolved, preIdx, spawned, alive, progress,
                   result, thrown>>

\* child.on('error'): the process could not be spawned
ChildError ==
    /\ child.st = "spawnerr"
    /\ child' = [child EXCEPT !.st = "closed", !.timer = "cleared"]
    /\ logs' = IF child.logPath # Undefined THEN logs \cup {child.logPath}
               ELSE logs
    /\ settled' = [done |-> TRUE, exitCode |-> NullCode, timedOut |-> FALSE]
    /\ ended' = Append(ended, NullCode)
    /\ UNCHANGED <<spec, processEnv, scanned, fs, pc, resolved, preIdx, spawned, alive, progress,
                   result, thrown>>

Next ==
    \/ Start
    \/ AfterPre
    \/ AfterMain
    \/ \E c \in ExitCodes : ProcExit(c)
    \/ TermResponse
    \/ TimerFire
    \/ GraceFire
    \/ StreamsClose
    \/ ChildError

Spec == Init /\ [][Next]_vars

\* the same run, started on every directory tree of the artifact scan
SpecScan == InitScan /\ [][Next]_vars

\* the same run, started with every combination of environment layers
SpecEnv == InitEnv /\ [][Next]_vars

------------------------------------------------------------------------------
(* resolveRunSpec on its own *)

DoResolve ==
    /\ pc = "start"
    /\ resolved' = resolveRunSpec(spec, fs)
    /\ pc' = "resolved"
    /\ UNCHANGED <<spec, processEnv, scanned, fs, preIdx, child, settled, spawned, ended, alive,
                   progress, logs, result, thrown>>

NextResolve == DoResolve

SpecResolve == InitResolve /\ [][NextResolve]_vars

------------------------------------------------------------------------------
(* prepareCommandWithReporter on its own, applied to a resolved command and
   then to the argv it returned *)

DoPrepare ==
    /\ pc = "resolved"
    /\ isResolvedCommand(resolved)
    /\ spawned' = <<[label |-> MainLabel,
                     argv  |-> prepareCommandWithReporter(resolved),
                     env   |-> EmptyEnv]>>
    /\ pc' = "prepared"
    /\ UNCHANGED <<spec, processEnv, scanned, fs, resolved, preIdx, child, settled, ended, alive,
                   progress, logs, result, thrown>>

DoPrepareAgain ==
    /\ pc = "prepared"
    /\ spawned' = Append(spawned,
           [label |-> MainLabel,
            argv  |-> prepareCommandWithReporter(
                          [resolved EXCEPT !.argv = spawned[1].argv]),
            env   |-> EmptyEnv])
    /\ pc' = "prepared again"
    /\ UNCHANGED <<spec, processEnv, scanned, fs, resolved, preIdx, child, settled, ended, alive,
                   progress, logs, result, thrown>>

NextPrepare ==
    \/ DoResolve
    \/ DoPrepare
    \/ DoPrepareAgain

SpecPrepare == InitPrepare /\ [][NextPrepare]_vars

------------------------------------------------------------------------------
(* Properties of runValidate, checked under Spec *)

Returned == pc = "done"

\* the main command of the run was executed and its result returned
MainReturned == pc = "done" /\ child.label = MainLabel /\ settled.done

\* the category of an error summary `[category] message`
Category(res) == IF Len(res.error) >= 2 THEN res.error[2] ELSE Undefined

\* C1: runValidate never throws; every failure, a kitwe.yaml that cannot be
\* loaded and an artifacts directory that cannot be created included, is
\* returned as a RunResult with status 'error' and a non-empty summary.
C1_ExecuteNeverThrows ==
    /\ thrown = Undefined
    /\ pc # "thrown"
    /\ (Returned /\ (fs.yaml \notin {"absent", "valid"} \/ fs.mkdirFails))
          => (result.status = "error" /\ Len(result.error) > 0)

\* C2: once a pre-command has ended with a non-zero or unavailable exit
\* code, it stays the last command spawned (no later pre-command, no main
\* command), and the run ends with status 'error', category
\* pre_command_failed.
C2_FailFast ==
    \A k \in 1..Len(ended) :
        (spawned[k].label.kind = "pre" /\ ended[k] # <<0>>)
            => /\ Len(spawned) = k
               /\ pc \in {"pre", "done"}
               /\ pc = "pre" => ENABLED AfterPre
               /\ Returned => /\ result.status = "error"
                              /\ Category(result) = "pre_command_failed"

\* three pre-commands, the second of which exits with code 1: the run is over
C2_Witness ==
    /\ Returned
    /\ Len(resolved.preCommands) >= 3
    /\ Len(ended) = 2
    /\ ended[1] = <<0>>
    /\ ended[2] = <<1>>

C4_RunReturns ==
    pc \in {"start", "pre", "main"} => ENABLED Next

\* C5: a command still running at its deadline is sent SIGTERM, and one
\* still running 5,000 ms later is sent SIGKILL.
C5_TwoStageTimeout ==
    /\ (child.timer = "fired" /\ child.aliveAtDeadline) => child.sigterm
    /\ (child.grace = "fired" /\ child.aliveAtGrace) => child.sigkill

\* the pre-commands of kitwe.yaml in the order the run has to spawn them
ConfiguredPreCommands ==
    IF spec.skipSetup \/ fs.yaml # "valid" THEN <<>>
    ELSE (IF fs.raw.run.skip_setup THEN <<>> ELSE fs.raw.setup.pre_commands)
         \o fs.raw.run.pre_commands

\* C6: the commands are spawned in the order setup.pre_commands,
\* run.pre_commands, main command, each at most once; each one only after
\* the one before it ended with exit code 0; the main command only after
\* the last pre-command; and at most one process of the run is alive.
C6_SpawnOrder ==
    /\ Cardinality(alive) <= 1
    /\ Len(spawned) <= Len(ConfiguredPreCommands) + 1
    /\ \A k \in 1..Len(spawned) :
          /\ IF k <= Len(ConfiguredPreCommands)
             THEN /\ spawned[k].label = PreLabel(k - 1)
                  /\ spawned[k].argv = ConfiguredPreCommands[k].argv
             ELSE spawned[k].label = MainLabel
          /\ k > 1 => /\ Len(ended) >= k - 1
                      /\ ended[k - 1] = <<0>>
          /\ k < Len(spawned) => spawned[k].label \notin alive

\* two setup commands, one run command and the main command were spawned
C6_Witness ==
    /\ Len(spawned) = 4
    /\ Len(fs.raw.setup.pre_commands) = 2
    /\ Len(fs.raw.run.pre_commands) = 1
    /\ spawned[4].label = MainLabel
    /\ alive = {MainLabel}

\* C7: when the resolver returns a ResolvedError, nothing is spawned and the
\* RunResult has status 'error', exit code -1, no artifacts and the summary
\* `[category] message`.
C7_ResolutionErrorShortCircuits ==
    resolved.kind = "error" =>
        /\ resolved.errorType \in
              {"project_not_found", "config_not_found", "no_entrypoint"}
        /\ spawned = <<>>
        /\ alive = {}
        /\ Returned
        /\ result.status = "error"
        /\ result.exitCode = -1
        /\ result.artifacts = <<>>
        /\ result.error = <<"[", resolved.errorType, "] ">> \o resolved.message

\* no entrypoint, though kitwe.yaml lists pre-commands and test-results
\* holds an artifact
C7_Witness ==
    /\ resolved.kind = "error"
    /\ resolved.errorType = "no_entrypoint"
    /\ Len(fs.raw.setup.pre_commands) > 0
    /\ collectArtifacts(fs, OutputDirOrDefault(spec)).artifacts # <<>>
    /\ Returned

------------------------------------------------------------------------------
(* Properties of resolveRunSpec, checked under SpecResolve *)

Resolved == pc = "resolved"

\* C8: resolveRunSpec returns a ResolvedCommand or a ResolvedError and never
\* throws, whatever the state of kitwe.yaml.
C8_ResolveNeverThrows ==
    Resolved => resolved.kind \in {"command", "error"}

\* the runner of a script command: the caller's, else by lock file
ScriptRunner ==
    IF spec.runner \in RunnerType THEN spec.runner
    ELSE IF "/proj/pnpm-lock.yaml" \in fs.files THEN "pnpm"
    ELSE IF "/proj/yarn.lock" \in fs.files THEN "yarn"
    ELSE "npm"

\* C9: with an existing project root, a kitwe.yaml that is absent or valid
\* and a caller script, the result is a 'cli_script' command whose argv is
\* built from spec.script, spec.runner or the lock files, and spec.args
\* alone.
C9_CallerScriptWins ==
    (Resolved /\ fs.rootExists /\ fs.yaml \in {"absent", "valid"}
        /\ Truthy(spec.script))
    => /\ resolved.kind = "command"
       /\ resolved.mode = "cli_script"
       /\ resolved.argv =
             <<ScriptRunner, "run", spec.script>>
             \o (IF Len(spec.args) > 0 /\ ScriptRunner = "npm"
                 THEN <<"--">> ELSE <<>>)
             \o spec.args

\* a caller script beside a caller config path that names a missing file
\* and a kitwe.yaml with its own script, config path, runner and args
C9_Witness ==
    /\ Resolved
    /\ spec.script = "test:e2e"
    /\ spec.configPath = "missing.config.ts"
    /\ fs.yaml = "valid"
    /\ fs.raw.run.script = "e2e"
    /\ fs.raw.run.config_path = "gone.config.ts"
    /\ fs.raw.run.runner = "pnpm"
    /\ fs.raw.run.args # <<>>
    /\ resolved.mode = "cli_script"

\* C10: without a caller script and with a caller config path that names a
\* missing file beneath an existing project root, the result is the
\* ResolvedError 'config_not_found', whatever kitwe.yaml holds.
C10_MissingCallerConfig ==
    (Resolved /\ fs.rootExists /\ ~Truthy(spec.script)
        /\ Truthy(spec.configPath)
        /\ resolve(projectRoot, spec.configPath) \notin fs.files)
    => /\ resolved.kind = "error"
       /\ resolved.errorType = "config_not_found"

\* the caller names no entrypoint of its own
NoCallerEntrypoint == ~Truthy(spec.script) /\ ~Truthy(spec.configPath)

C12_ProjectNotFoundFirst ==
    (Resolved /\ ~fs.rootExists)
    => /\ resolved.kind = "error"
       /\ resolved.errorType = "project_not_found"
       /\ resolved.errorType \notin {"config_not_found", "no_entrypoint"}
       /\ resolved.message = <<"Project root does not exist: ", projectRoot>>

\* no project root, and a caller that gives a script, a config path, a
\* runner and an argument
C12_Witness ==
    /\ Resolved
    /\ ~fs.rootExists
    /\ Truthy(spec.script)
    /\ Truthy(spec.configPath)
    /\ spec.runner = "yarn"
    /\ Len(spec.args) > 0
    /\ resolved.errorType = "project_not_found"

\* the positions of argv that hold the separator token
Separators(argv) == {i \in 1..Len(argv) : argv[i] = "--"}

\* C13: a 'cli_script' command is [runner, 'run', spec.script], then '--'
\* exactly when spec.args is non-empty and the runner is 'npm', then
\* spec.args; the runner is spec.runner if set, else 'pnpm' if
\* pnpm-lock.yaml exists, else 'yarn' if yarn.lock exists, else 'npm'.
C13_CallerScriptArgv ==
    (Resolved /\ resolved.mode = "cli_script")
    => LET argv == resolved.argv
           n    == Len(spec.args)
       IN  /\ Len(argv) >= 3
           /\ argv[1] = (IF Truthy(spec.runner) THEN spec.runner
                         ELSE IF "/proj/pnpm-lock.yaml" \in fs.files THEN "pnpm"
                         ELSE IF "/proj/yarn.lock" \in fs.files THEN "yarn"
                         ELSE "npm")
           /\ argv[2] = "run"
           /\ argv[3] = spec.script
           /\ SubSeq(argv, Len(argv) - n + 1, Len(argv)) = spec.args
           /\ IF n > 0 /\ argv[1] = "npm"
              THEN Len(argv) = 4 + n /\ Separators(argv) = {4}
              ELSE Len(argv) = 3 + n /\ Separators(argv) = {}

\* no caller runner, both lock files, an argument: pnpm and no separator
C13_Witness ==
    /\ Resolved
    /\ resolved.mode = "cli_script"
    /\ spec.runner = Undefined
    /\ LockFiles \subseteq fs.files
    /\ Len(spec.args) = 1
    /\ resolved.argv = <<"pnpm", "run", spec.script>> \o spec.args

\* C14: a 'yaml_script' command is what the caller-script tier builds for
\* the script run.script and the arguments run.args followed by spec.args:
\* [runner, 'run', run.script], '--' when the runner is 'npm' and there are
\* arguments, the persisted arguments, the caller's arguments; the runner
\* is spec.runner when the caller set one and is detected from the lock
\* files otherwise.  Stated for a kitwe.yaml that names no runner of its own.
C14_PersistedScriptArgv ==
    (Resolved /\ resolved.mode = "yaml_script" /\ ~Truthy(fs.raw.run.runner))
    => LET allArgs == fs.raw.run.args \o spec.args
       IN  resolved.argv =
               <<ScriptRunner, "run", fs.raw.run.script>>
               \o (IF Len(allArgs) > 0 /\ ScriptRunner = "npm"
                   THEN <<"--">> ELSE <<>>)
               \o allArgs

\* C15: a 'cli_config' command is ['npx', 'playwright', 'test',
\* '--config=' + spec.configPath as given] followed by spec.args, and a
\* 'yaml_config' command is the same with run.config_path and with run.args
\* followed by spec.args; neither holds a '--', and the working directory
\* is the project root.
C15_ConfigPathArgv ==
    /\ (Resolved /\ resolved.mode = "cli_config")
          => /\ spec.configPath = "pw.config.ts"
             /\ resolved.argv =
                   <<"npx", "playwright", "test", "--config=pw.config.ts">>
                   \o spec.args
             /\ Separators(resolved.argv) = {}
             /\ resolved.cwd = "/proj"
    /\ (Resolved /\ resolved.mode = "yaml_config")
          => /\ fs.raw.run.config_path = "yaml.config.ts"
             /\ resolved.argv =
                   <<"npx", "playwright", "test", "--config=yaml.config.ts">>
                   \o fs.raw.run.args \o spec.args
             /\ Separators(resolved.argv) = {}
             /\ resolved.cwd = "/proj"

\* a caller config path with an argument, beside a caller runner 'npm'
C15_Witness ==
    /\ Resolved
    /\ resolved.mode = "cli_config"
    /\ spec.runner = "npm"
    /\ Len(spec.args) = 1
    /\ Len(resolved.argv) = 5

\* C18: a valid kitwe.yaml that differs from the one of the call in its
\* tests section only (test_dir, pattern), resolved for the same RunSpec on
\* the same file system, gives a result of the same kind, mode and argv.
C18_TestsConfigIsolation ==
    (Resolved /\ fs.yaml = "valid")
    => \A t \in TestsSections :
          LET other == resolveRunSpec(spec, [fs EXCEPT !.raw.tests = t])
          IN  /\ other.kind = resolved.kind
              /\ other.mode = resolved.mode
              /\ other.argv = resolved.argv

\* a persisted script with persisted arguments, resolved with a test
\* directory and a pattern in the tests section
C18_Witness ==
    /\ Resolved
    /\ resolved.mode = "yaml_script"
    /\ fs.raw.run.args # <<>>
    /\ fs.raw.tests.test_dir = "e2e"
    /\ fs.raw.tests.pattern = "**/*.spec.ts"

------------------------------------------------------------------------------
(* Properties of the pre-commands, checked under Spec *)

\* C16: when spec.skipSetup is true the resolved command carries no
\* pre-commands, in each of the four modes and whatever setup.pre_commands
\* and run.pre_commands hold, and the run spawns nothing but the main
\* command and reports no setup phase.
C16_CallerSkipSetup ==
    spec.skipSetup =>
        /\ resolved.preCommands = <<>>
        /\ Len(spawned) <= 1
        /\ \A k \in 1..Len(spawned) : spawned[k].label = MainLabel
        /\ \A k \in 1..Len(progress) :
              progress[k] \notin {"setup", "pre_command"}
        /\ pc # "pre"

\* skipSetup with two setup commands and a run command in kitwe.yaml: the
\* main command of the persisted config path was spawned alone and ended
C16_Witness ==
    /\ spec.skipSetup
    /\ ~fs.raw.run.skip_setup
    /\ Len(fs.raw.setup.pre_commands) = 2
    /\ Len(fs.raw.run.pre_commands) = 1
    /\ resolved.mode = "yaml_config"
    /\ MainReturned
    /\ Len(spawned) = 1

\* C17: when a valid kitwe.yaml sets run.skip_setup the resolved command
\* carries no pre-commands and the run spawns none, whether they are listed
\* under setup.pre_commands or under run.pre_commands.
C17_PersistedSkipSetup ==
    (fs.yaml = "valid" /\ fs.raw.run.skip_setup)
    => /\ resolved.preCommands = <<>>
       /\ \A k \in 1..Len(spawned) : spawned[k].label.kind # "pre"

\* C19: when a pre-command that was still running at its deadline has
\* settled, the next step of the run returns the error pre_command_failed
\* and spawns nothing, whatever exit code the signalled process reported.
C19_PreCommandTimeoutAborts ==
    [][(pc = "pre" /\ settled.done /\ settled.timedOut /\ child.aliveAtDeadline)
         => /\ pc' = "done"
            /\ result'.status = "error"
            /\ Category(result') = "pre_command_failed"
            /\ spawned' = spawned]_vars

\* the 1-indexed step number of the pre-command of loop index i
StepNumber(i) ==
    CASE i = 0 -> "1" [] i = 1 -> "2" [] i = 2 -> "3" [] i = 3 -> "4"
      [] OTHER -> "5"

\* C20: the summary of a pre_command_failed result names the failing
\* pre-command by its 1-indexed position (the first one is step 1) and
\* holds the path of that pre-command's log file, whether the command
\* exited non-zero, timed out or could not be spawned.
C20_FailureNamesStepAndLog ==
    (Returned /\ Category(result) = "pre_command_failed")
    => /\ result.error[4] = "Pre-command "
       /\ result.error[5] = StepNumber(preIdx)
       /\ \E k \in 1..Len(result.error) : result.error[k] = PreLogPath(preIdx)

------------------------------------------------------------------------------
(* Properties of prepareCommandWithReporter, checked under SpecPrepare *)

Prepared == pc \in {"prepared", "prepared again"}

\* the tokens of an argv that hold '--reporter', and those that hold '--trace'
ReporterFlags(argv) ==
    {i \in 1..Len(argv) : argv[i] \in {"--reporter=dot", "--reporter=list"}}

TraceFlags(argv) ==
    {i \in 1..Len(argv) : argv[i] \in {"--trace=on", "--trace=retain-on-failure"}}

\* the tokens the augmentation appended to the resolved argv
Injected == SubSeq(spawned[1].argv, Len(resolved.argv) + 1, Len(spawned[1].argv))

\* C21: '--reporter=list' is appended exactly when no token of the resolved
\* argv holds '--reporter', and '--trace=retain-on-failure' exactly when none
\* holds '--trace'; the augmentation of an augmented argv is that argv; the
\* executed argv holds at most one injected flag of each kind.
C21_InjectionIdempotent ==
    /\ Prepared =>
          /\ ReporterFlags(Injected) # {} <=> ReporterFlags(resolved.argv) = {}
          /\ TraceFlags(Injected) # {} <=> TraceFlags(resolved.argv) = {}
          /\ Cardinality(ReporterFlags(Injected)) <= 1
          /\ Cardinality(TraceFlags(Injected)) <= 1
          /\ \A i \in ReporterFlags(Injected) : Injected[i] = "--reporter=list"
          /\ \A i \in TraceFlags(Injected) : Injected[i] = "--trace=retain-on-failure"
    /\ pc = "prepared again" => spawned[2].argv = spawned[1].argv

\* a persisted script whose arguments hold a trace flag and no reporter
\* flag: the reporter flag alone was injected, and not a second time
C21_Witness ==
    /\ pc = "prepared again"
    /\ resolved.mode = "yaml_script"
    /\ TraceFlags(resolved.argv) # {}
    /\ ReporterFlags(resolved.argv) = {}
    /\ Cardinality(ReporterFlags(spawned[2].argv)) = 1

\* C22: the resolved argv is a prefix of the final argv.  In the modes
\* cli_script and yaml_script, when a flag is injected, a '--' is appended
\* first exactly when the resolved argv holds none, and every injected flag
\* comes after a '--'; in the modes cli_config and yaml_config the flags are
\* appended alone.  Nothing is appended when both flags are present.
C22_InjectionPlacement ==
    Prepared =>
        LET final == spawned[1].argv
            n     == Len(resolved.argv)
            flags == ReporterFlags(Injected) \cup TraceFlags(Injected)
        IN  /\ Len(final) >= n
            /\ SubSeq(final, 1, n) = resolved.argv
            /\ (ReporterFlags(resolved.argv) # {} /\ TraceFlags(resolved.argv) # {})
                  => final = resolved.argv
            /\ resolved.mode \in {"cli_script", "yaml_script"} =>
                  /\ flags # {} =>
                        /\ \A i \in flags : \E j \in Separators(final) : j < n + i
                        /\ Separators(Injected) =
                              (IF Separators(resolved.argv) = {} THEN {1} ELSE {})
                  /\ flags = {} => Injected = <<>>
                  /\ Len(Injected) = Cardinality(flags \cup Separators(Injected))
            /\ resolved.mode \in {"cli_config", "yaml_config"} =>
                  /\ Separators(Injected) = {}
                  /\ Len(Injected) = Cardinality(flags)

\* a caller script run by pnpm without arguments: a '--' and both flags
C22_Witness ==
    /\ Prepared
    /\ resolved.argv = <<"pnpm", "run", "test:e2e">>
    /\ spawned[1].argv = <<"pnpm", "run", "test:e2e", "--", "--reporter=list",
                           "--trace=retain-on-failure">>

------------------------------------------------------------------------------
(* Properties of the environment of the commands, checked under SpecEnv *)

\* the value of name n in the last of the layers that defines it
LastDefined(layers, n) ==
    LET D == {i \in 1..Len(layers) : n \in DOMAIN layers[i]}
    IN  IF D = {} THEN Undefined
        ELSE layers[CHOOSE i \in D : \A j \in D : j <= i][n]

\* the layers of the main command's environment, first to last
MainLayers ==
    <<processEnv, [CI |-> "true", PLAYWRIGHT_HTML_OPEN |-> "never"],
      spec.env, resolved.env>>

\* the overlay kitwe.yaml gives the k-th pre-command of the run
OwnOverlay(k) ==
    (fs.raw.setup.pre_commands \o fs.raw.run.pre_commands)[k].env

\* C23: every spawned command receives, for every variable name, the value
\* of the last layer that defines it: process.env, {CI=true,
\* PLAYWRIGHT_HTML_OPEN=never}, spec.env, the resolved command's env, and
\* for a pre-command its own env last; it receives no name that no layer of
\* its own defines, so no overlay of another pre-command.
C23_EnvLayering ==
    \A k \in 1..Len(spawned) :
        LET layers == IF spawned[k].label.kind = "pre"
                      THEN Append(MainLayers, OwnOverlay(k))
                      ELSE MainLayers
            e == spawned[k].env
        IN  /\ DOMAIN e = UNION {DOMAIN layers[i] : i \in 1..Len(layers)}
            /\ \A n \in DOMAIN e : e[n] = LastDefined(layers, n)

\* the setup command overlays CI and APP, the run command nothing; the
\* caller sets CI and kitwe.yaml sets CI and APP: the main command and the
\* run command see kitwe.yaml's values, the setup command its own
C23_Witness ==
    /\ Len(spawned) = 3
    /\ resolved.mode = "yaml_script"
    /\ processEnv = [HOME |-> "/home/dev", CI |-> "inherited", APP |-> "inherited"]
    /\ spec.env = [CI |-> "spec"]
    /\ fs.raw.run.env = [CI |-> "config", APP |-> "config"]
    /\ OwnOverlay(1) = [CI |-> "setup", APP |-> "setup"]
    /\ OwnOverlay(2) = EmptyEnv
    /\ spawned[1].env["CI"] = "setup"
    /\ spawned[2].env["CI"] = "config"
    /\ spawned[3].env = [HOME |-> "/home/dev", CI |-> "config", APP |-> "config",
                         PLAYWRIGHT_HTML_OPEN |-> "never"]

------------------------------------------------------------------------------
(* Properties of the progress tags and the log files, checked under Spec *)

\* the tags of a run that goes through all of its n pre-commands
AllTags(n) ==
    <<"resolve">>
    \o (IF n > 0 THEN <<"setup">> \o [i \in 1..n |-> "pre_command"] ELSE <<>>)
    \o <<"execute", "collect", "complete">>

\* the number of tags `tag` received
Count(tag) == Cardinality({k \in 1..Len(progress) : progress[k] = tag})

\* C24: the tags received are a prefix of resolve, [setup, one pre_command
\* per pre-command], execute, collect, complete; a pre-command is spawned
\* only after its pre_command tag and the main command only after execute;
\* complete is received only when the main command has ended and the
\* artifacts of the result were collected.
C24_ProgressFollowsPhases ==
    LET n == Len(resolved.preCommands)
        spawnedPre == {k \in 1..Len(spawned) : spawned[k].label.kind = "pre"}
    IN  /\ Len(progress) <= Len(AllTags(n))
        /\ progress = SubSeq(AllTags(n), 1, Len(progress))
        /\ Count("pre_command") >= Cardinality(spawnedPre)
        /\ Count("pre_command") <= Cardinality(spawnedPre) + 1
        /\ (\E k \in 1..Len(spawned) : spawned[k].label = MainLabel)
              => Count("execute") = 1
        /\ Count("complete") = 1
              => /\ MainReturned
                 /\ result.artifacts =
                       collectArtifacts(fs, OutputDirOrDefault(spec)).artifacts

\* a full run with three pre-commands
C24_Witness ==
    /\ Len(resolved.preCommands) = 3
    /\ progress = <<"resolve", "setup", "pre_command", "pre_command",
                    "pre_command", "execute", "collect", "complete">>

\* the log files of the main command
MainLogs == {"logs/stdout.log", "logs/stderr.log"}

IsPrefix(a, b) == Len(a) <= Len(b) /\ SubSeq(b, 1, Len(a)) = a

\* the paths of a node and of everything beneath it
RECURSIVE PathsOf(_, _)
PathsOf(node, path) ==
    {path} \cup UNION {PathsOf(node.entries[i], Append(path, node.entries[i].name)) :
                          i \in 1..Len(node.entries)}

AllPaths == PathsOf(fs.tree, <<"/">>)

\* the candidate directories of the scan that exist, as the run names them
Candidates ==
    LET dirs == searchDirs(OutputDirOrDefault(spec))
    IN  {dirs[i] : i \in {k \in 1..Len(dirs) : existsSyncPath(fs, dirs[k])}}

\* the scan of a run has happened
Scanned == pc = "done" /\ "collect" \in {progress[i] : i \in 1..Len(progress)}

\* the artifacts of the result, as a set of indices
ArtifactIdx == 1..Len(result.artifacts)

\* The file at the absolute path q can be read from candidate c: every
\* directory from c down to the one that holds q can be listed, those
\* beneath c and q itself can be stat-ed, and q is a file of a known type.
ReachableFile(c, q) ==
    LET base == Absolute(c, fs.cwd)
    IN  /\ IsPrefix(base, q) /\ Len(q) > Len(base)
        /\ \A k \in Len(base)..(Len(q) - 1) :
              LET node == NodeAt(fs, SubSeq(q, 1, k))
              IN  /\ node.type = "dir" /\ node.readOk
                  /\ k > Len(base) => node.statOk
        /\ NodeAt(fs, q).type = "file" /\ NodeAt(fs, q).statOk
        /\ getArtifactType(q[Len(q)]) # Undefined

\* the depth beneath candidate c of the directory that holds the file q
DirDepth(c, q) == Len(q) - Len(Absolute(c, fs.cwd)) - 1

\* the deepest directory the scan enters
ScanLimit == 3

\* C26: the scan is bounded to depth 3, a candidate directory being depth
\* 0: every directory that was read is a candidate or at most three levels
\* beneath one, every reported file lies in such a directory, and every
\* file of a known type that can be read in such a directory is reported.
C26_ScanDepthBounded ==
    Scanned =>
        /\ \A d \in scanned :
              \E c \in Candidates : IsPrefix(c, d) /\ Len(d) - Len(c) <= ScanLimit
        /\ \A i \in ArtifactIdx :
              \E c \in Candidates :
                  /\ IsPrefix(c, result.artifacts[i].path)
                  /\ Len(result.artifacts[i].path) - Len(c) - 1 <= ScanLimit
        /\ \A c \in Candidates : \A q \in AllPaths :
              (ReachableFile(c, q) /\ DirDepth(c, q) <= ScanLimit)
                  => \E i \in ArtifactIdx :
                         Absolute(result.artifacts[i].path, fs.cwd) = q

\* test-results holds readable directories five deep, the output directory
\* is elsewhere: d3 was read and its screenshot reported, d4 was not read
C26_Witness ==
    /\ Scanned
    /\ spec.outputDir = <<"/", "var", "out">>
    /\ <<"/", "proj", "test-results", "d1", "d2", "d3">> \in scanned
    /\ ReachableFile(<<"/", "proj", "test-results">>,
                     <<"/", "proj", "test-results", "d1", "d2", "d3", "d4", "shot.png">>)
    /\ <<"/", "proj", "test-results", "d1", "d2", "d3", "d4">> \notin scanned
    /\ \E i \in ArtifactIdx :
          result.artifacts[i].path
              = <<"/", "proj", "test-results", "d1", "d2", "d3", "shot.png">>

\* readdirSync of a directory the scan read failed
ReadFailed == \E d \in scanned : ~NodeAt(fs, d).readOk

\* statSync of an entry of a directory the scan read failed
StatFailed ==
    \E d \in scanned :
        /\ NodeAt(fs, d).readOk
        /\ \E k \in 1..Len(NodeAt(fs, d).entries) : ~NodeAt(fs, d).entries[k].statOk

\* C27: errors of the artifact scan are swallowed: after a scan in which a
\* readdirSync or a statSync failed the run has not thrown, status, exit
\* code and error summary are those of the main command alone, and every
\* file of a known type that can be read within the bound from a candidate
\* directory is in the artifacts.
C27_ScanErrorsSwallowed ==
    (Scanned /\ (ReadFailed \/ StatFailed)) =>
        /\ thrown = Undefined
        /\ result.status = StatusOf(settled)
        /\ result.exitCode = ExitCodeOrMinusOne(settled.exitCode)
        /\ result.error = ErrorsOf(settled)
        /\ \A c \in Candidates : \A q \in AllPaths :
              (ReachableFile(c, q) /\ DirDepth(c, q) <= ScanLimit)
                  => \E i \in ArtifactIdx :
                         /\ Absolute(result.artifacts[i].path, fs.cwd) = q
                         /\ result.artifacts[i].type = getArtifactType(q[Len(q)])

\* test-results cannot be listed, the run passed, and the video of the
\* output directory is reported
C27_Witness ==
    /\ Scanned
    /\ ReadFailed
    /\ ~NodeAt(fs, <<"/", "proj", "test-results">>).readOk
    /\ result.status = "passed"
    /\ \E i \in ArtifactIdx :
          result.artifacts[i].path = <<"/", "var", "out", "video.webm">>

\* C30: no file is listed more than once in the artifacts of a result,
\* whatever the output directory of the caller: two entries of the list
\* never name the same file.
C30_NoDuplicateArtifacts ==
    Scanned =>
        \A i, j \in ArtifactIdx :
            i # j => Absolute(result.artifacts[i].path, fs.cwd)
                        # Absolute(result.artifacts[j].path, fs.cwd)

\* C28: a run that is called while the project root does not exist (and
\* whose directory creation does not throw) returns status 'error' with
\* category project_not_found, has spawned nothing, and leaves the project
\* root non-existent, for an absolute and for a relative artifacts
\* directory.
C28_MissingRootStaysMissing ==
    [][(pc = "start" /\ ~fs.rootExists /\ ~fs.mkdirFails)
         => /\ pc' = "done"
            /\ result'.status = "error"
            /\ Category(result') = "project_not_found"
            /\ spawned' = <<>>
            /\ ~fs'.rootExists]_vars

\* C29: the result of a main command has status 'timeout' only if the
\* process was still running when the deadline fired; a process that had
\* exited with code 0 by then gives 'passed', in whatever order its exit,
\* the 'close' event and the timer callback come.
C29_TimeoutOnlyWhenRunning ==
    MainReturned =>
        /\ result.status = "timeout" => child.aliveAtDeadline
        /\ (child.code = <<0>> /\ ~child.aliveAtDeadline)
              => result.status = "passed"

====
